---- MODULE Spec2Model ----
(***************************************************************************)
(* Nuvoton NPCM8xx clock generator (drivers/clk/clk-npcm8xx.c).            *)
(*                                                                         *)
(* The model holds the clock-controller register window, the state built   *)
(* by npcm8xx_clk_probe (registered clocks, the onecell export array, the  *)
(* provider), and the result of the last rate query.  A 32-bit register    *)
(* word is a bit vector [0..31 -> {0,1}], so that masks and shifts are     *)
(* computed bit by bit.  Rates are in Hz.  unsigned long is 64 bits wide   *)
(* (the SoC is arm64); the inputs are bounded so that no product reaches   *)
(* 2^31, far below the width of the C types.                               *)
(***************************************************************************)
EXTENDS Integers, Sequences, FiniteSets, TLC

VARIABLES
    regs,      \* register window: offset -> 32-bit word (owned by hardware)
    divzero,   \* what an integer division by zero does on this build
    pc,        \* position of npcm8xx_clk_probe
    i,         \* the loop index i of npcm8xx_clk_probe
    hw,        \* the local hw of npcm8xx_clk_probe: "ok" or an errno
    ret,       \* value returned by npcm8xx_clk_probe ("none" until it returns)
    clks,      \* clocks registered with the clock framework: name -> node
    hws,       \* npcm8xx_clk_data->hws: onecell index -> clock name
    provider,  \* TRUE once the onecell provider is added
    last,      \* last rate query: operation, node, inputs, result
    prev,      \* the query before it, kept when it was the same query
    writes     \* number of register writes issued through the framework

vars == <<regs, divzero, pc, i, hw, ret, clks, hws, provider, last, prev, writes>>

-----------------------------------------------------------------------------
(* Bounds *)

\* largest product parent_rate * FBDV the model evaluates
MaxProduct == 2125000000

\* number of clk_set_rate / clk_set_parent calls explored
MaxWrites == 1

-----------------------------------------------------------------------------
(* 32-bit words and bit-fields *)

Bits == 0..31

Pow2(n) == 2 ^ n

\* bit k of a value below 2^31
BitOf(n, k) == IF k > 30 THEN 0 ELSE (n \div Pow2(k)) % 2

GENMASK(h, l) == [hi |-> h, lo |-> l]

BIT(n) == GENMASK(n, n)

RECURSIVE FieldSum(_, _, _)
FieldSum(val, lo, k) ==
    IF k < lo THEN 0 ELSE val[k] * Pow2(k - lo) + FieldSum(val, lo, k - 1)

\* FIELD_GET(mask, val): the bits of val under mask, shifted down
FIELD_GET(mask, val) == FieldSum(val, mask.lo, mask.hi)

ZeroWord == [b \in Bits |-> 0]

AltWord == [b \in Bits |-> b % 2]

\* the word with field value v placed under mask, over the word base
FieldPut(base, mask, v) ==
    [b \in Bits |-> IF b >= mask.lo /\ b <= mask.hi THEN BitOf(v, b - mask.lo)
                    ELSE base[b]]

-----------------------------------------------------------------------------
(* Constants of the driver *)

NPCM8XX_REF_CLK == 25000000

PLLCON_LOKI == BIT(31)
PLLCON_LOKS == BIT(30)
PLLCON_FBDV == GENMASK(27, 16)
PLLCON_OTDV2 == GENMASK(15, 13)
PLLCON_PWDEN == BIT(12)
PLLCON_OTDV1 == GENMASK(10, 8)
PLLCON_INDV == GENMASK(5, 0)

NPCM8XX_CLKSEL == 4
NPCM8XX_CLKDIV1 == 8
NPCM8XX_CLKDIV2 == 44
NPCM8XX_CLKDIV3 == 88
NPCM8XX_CLKDIV4 == 124
NPCM8XX_PLLCON0 == 12
NPCM8XX_PLLCON1 == 16
NPCM8XX_PLLCON2 == 84
NPCM8XX_PLLCONG == 96
NPCM8XX_THRTL_CNT == 192

PllRegs == {NPCM8XX_PLLCON0, NPCM8XX_PLLCON1, NPCM8XX_PLLCON2, NPCM8XX_PLLCONG}

DivRegs == {NPCM8XX_CLKDIV1, NPCM8XX_CLKDIV2, NPCM8XX_CLKDIV3, NPCM8XX_CLKDIV4,
            NPCM8XX_THRTL_CNT}

RegOffsets == PllRegs \cup DivRegs \cup {NPCM8XX_CLKSEL}

\* onecell_idx of a clock that is not exported (-1 in the source)
NoIdx == "-1"

pll_mux_table == <<0, 1, 2, 3>>
pll_mux_parents == <<"pll0", "pll1", "refclk", "pll2_div2">>

cpuck_mux_table == <<0, 1, 2, 3, 7>>
cpuck_mux_parents == <<"pll0", "pll1", "refclk", "sysbypck", "pll2">>

pixcksel_mux_table_bad == <<0, 1>>
pixcksel_mux_table == <<0, 2>>
pixcksel_mux_parents == <<"pll_gfx", "refclk">>

sucksel_mux_table == <<2, 3>>
sucksel_mux_parents == <<"refclk", "pll2_div2">>

mccksel_mux_table == <<0, 2, 3>>
mccksel_mux_parents == <<"pll1_div2", "refclk", "mcbypck">>

clkoutsel_mux_table == <<0, 1, 2, 3, 4>>
clkoutsel_mux_parents == <<"pll0", "pll1", "refclk", "pll_gfx", "pll2_div2">>

gfxmsel_mux_table == <<2, 3>>
gfxmsel_mux_parents == <<"refclk", "pll2_div2">>

dvcssel_mux_table == <<2, 3>>
dvcssel_mux_parents == <<"refclk", "pll2">>

PllData(reg, name, parent_name, flags, idx) ==
    [reg |-> reg, name |-> name, parent_name |-> parent_name, flags |-> flags,
     onecell_idx |-> idx]

npcm8xx_plls == <<
    PllData(NPCM8XX_PLLCON0, "pll0", "refclk", {}, NoIdx),
    PllData(NPCM8XX_PLLCON1, "pll1", "refclk", {}, NoIdx),
    PllData(NPCM8XX_PLLCON2, "pll2", "refclk", {}, NoIdx),
    PllData(NPCM8XX_PLLCONG, "pll_gfx", "refclk", {}, NoIdx) >>

MuxData(shift, mask, table, name, parent_names, flags, idx) ==
    [shift |-> shift, mask |-> mask, table |-> table, name |-> name,
     parent_names |-> parent_names, num_parents |-> Len(parent_names),
     flags |-> flags, onecell_idx |-> idx]

npcm8xx_muxes == <<
    MuxData(0, GENMASK(1, 0), cpuck_mux_table, "cpu", cpuck_mux_parents,
            {"CLK_IS_CRITICAL"}, "NPCM8XX_CLK_CPU"),
    MuxData(4, GENMASK(1, 0), pixcksel_mux_table, "gfx_pixel",
            pixcksel_mux_parents, {}, "NPCM8XX_CLK_GFX_PIXEL"),
    MuxData(6, GENMASK(1, 0), pll_mux_table, "sd_mux", pll_mux_parents, {}, NoIdx),
    MuxData(8, GENMASK(1, 0), pll_mux_table, "uart_mux", pll_mux_parents, {}, NoIdx),
    MuxData(10, GENMASK(1, 0), sucksel_mux_table, "serial_usb_mux",
            sucksel_mux_parents, {}, NoIdx),
    MuxData(12, GENMASK(1, 0), mccksel_mux_table, "mc_phy", mccksel_mux_parents,
            {}, NoIdx),
    MuxData(14, GENMASK(1, 0), pll_mux_table, "adc_mux", pll_mux_parents, {}, NoIdx),
    MuxData(16, GENMASK(1, 0), pll_mux_table, "gfx_mux", pll_mux_parents, {}, NoIdx),
    MuxData(18, GENMASK(2, 0), clkoutsel_mux_table, "clkout_mux",
            clkoutsel_mux_parents, {}, NoIdx),
    MuxData(21, GENMASK(1, 0), gfxmsel_mux_table, "gfxm_mux", gfxmsel_mux_parents,
            {}, NoIdx),
    MuxData(23, GENMASK(1, 0), dvcssel_mux_table, "dvc_mux", dvcssel_mux_parents,
            {}, NoIdx),
    MuxData(25, GENMASK(1, 0), pll_mux_table, "rg_mux", pll_mux_parents, {}, NoIdx),
    MuxData(27, GENMASK(1, 0), pll_mux_table, "rcp_mux", pll_mux_parents, {}, NoIdx) >>

DivData(reg, shift, width, name, parent_name, dflags, flags, idx) ==
    [reg |-> reg, shift |-> shift, width |-> width, name |-> name,
     parent_name |-> parent_name, clk_divider_flags |-> dflags, flags |-> flags,
     onecell_idx |-> idx]

RO == {"CLK_DIVIDER_READ_ONLY"}

RO_P2 == {"CLK_DIVIDER_READ_ONLY", "CLK_DIVIDER_POWER_OF_TWO"}

npcm8xx_divs == <<
    DivData(NPCM8XX_CLKDIV1, 28, 3, "adc", "pre adc", RO_P2, {}, "NPCM8XX_CLK_ADC"),
    DivData(NPCM8XX_CLKDIV1, 26, 2, "ahb", "pre_clk", RO, {"CLK_IS_CRITICAL"},
            "NPCM8XX_CLK_AHB"),
    DivData(NPCM8XX_CLKDIV1, 21, 5, "pre adc", "adc_mux", RO, {},
            "NPCM8XX_CLK_PRE_ADC"),
    DivData(NPCM8XX_CLKDIV1, 16, 5, "uart", "uart_mux", RO, {}, "NPCM8XX_CLK_UART"),
    DivData(NPCM8XX_CLKDIV1, 11, 5, "mmc", "sd_mux", RO, {}, "NPCM8XX_CLK_MMC"),
    DivData(NPCM8XX_CLKDIV1, 6, 5, "spi3", "ahb", {}, {}, "NPCM8XX_CLK_SPI3"),
    DivData(NPCM8XX_CLKDIV1, 2, 4, "pci", "gfx_mux", RO, {}, "NPCM8XX_CLK_PCI"),
    DivData(NPCM8XX_CLKDIV2, 30, 2, "apb4", "ahb", RO_P2, {}, "NPCM8XX_CLK_APB4"),
    DivData(NPCM8XX_CLKDIV2, 28, 2, "apb3", "ahb", RO_P2, {}, "NPCM8XX_CLK_APB3"),
    DivData(NPCM8XX_CLKDIV2, 26, 2, "apb2", "ahb", RO_P2, {}, "NPCM8XX_CLK_APB2"),
    DivData(NPCM8XX_CLKDIV2, 24, 2, "apb1", "ahb", RO_P2, {}, "NPCM8XX_CLK_APB1"),
    DivData(NPCM8XX_CLKDIV2, 22, 2, "apb5", "ahb", RO_P2, {}, "NPCM8XX_CLK_APB5"),
    DivData(NPCM8XX_CLKDIV2, 16, 5, "clkout", "clkout_mux", RO, {},
            "NPCM8XX_CLK_CLKOUT"),
    DivData(NPCM8XX_CLKDIV2, 13, 3, "gfx0_gfx1_mem", "gfx_mux", RO, {},
            "NPCM8XX_CLK_GFX"),
    DivData(NPCM8XX_CLKDIV2, 8, 5, "usb_bridge", "serial_usb_mux", RO, {},
            "NPCM8XX_CLK_SU"),
    DivData(NPCM8XX_CLKDIV2, 4, 4, "usb_host", "serial_usb_mux", RO, {},
            "NPCM8XX_CLK_SU48"),
    DivData(NPCM8XX_CLKDIV2, 0, 4, "sdhc", "sd_mux", RO, {}, "NPCM8XX_CLK_SDHC"),
    DivData(NPCM8XX_CLKDIV3, 16, 8, "spi1", "ahb", RO, {}, "NPCM8XX_CLK_SPI1"),
    DivData(NPCM8XX_CLKDIV3, 11, 5, "uart2", "uart_mux", RO, {},
            "NPCM8XX_CLK_UART2"),
    DivData(NPCM8XX_CLKDIV3, 6, 5, "spi0", "ahb", RO, {}, "NPCM8XX_CLK_SPI0"),
    DivData(NPCM8XX_CLKDIV3, 1, 5, "spix", "ahb", RO, {}, "NPCM8XX_CLK_SPIX"),
    DivData(NPCM8XX_CLKDIV4, 28, 4, "rg", "rg_mux", RO, {}, "NPCM8XX_CLK_RG"),
    DivData(NPCM8XX_CLKDIV4, 12, 4, "rcp", "rcp_mux", RO, {}, "NPCM8XX_CLK_RCP"),
    DivData(NPCM8XX_THRTL_CNT, 0, 2, "th", "cpu", RO_P2, {}, "NPCM8XX_CLK_TH") >>

FactorData(name, parent_name, mult, div) ==
    [name |-> name, parent_name |-> parent_name, mult |-> mult, div |-> div]

\* the five devm_clk_hw_register_fixed_factor calls of probe, in order
fixed_factors == <<
    FactorData("pll1_div2", "pll1", 1, 2),
    FactorData("pll2_div2", "pll2", 1, 2),
    FactorData("pre_clk", "cpu", 1, 2),
    FactorData("axi", "th", 1, 2),
    FactorData("atb", "axi", 1, 2) >>

ARRAY_SIZE(a) == Len(a)

Range(s) == {s[k] : k \in 1..Len(s)}

\* the onecell indices this driver stores into npcm8xx_clk_data->hws
OnecellIds ==
    ({"NPCM8XX_CLK_REFCLK"}
        \cup {npcm8xx_plls[k].onecell_idx : k \in 1..Len(npcm8xx_plls)}
        \cup {npcm8xx_divs[k].onecell_idx : k \in 1..Len(npcm8xx_divs)}
        \cup {npcm8xx_muxes[k].onecell_idx : k \in 1..Len(npcm8xx_muxes)})
    \ {NoIdx}

-----------------------------------------------------------------------------
(* Results of a rate query *)

Rate(v) == [kind |-> "rate", value |-> v, err |-> "none"]

Fail(e) == [kind |-> "err", value |-> 0, err |-> e]

\* the division trapped: the query does not return
Fault == [kind |-> "fault", value |-> 0, err |-> "divide error"]

NoCall ==
    [op |-> "none", node |-> "none", parent_rate |-> 0, res |-> Rate(0),
     reads |-> {}, divided |-> FALSE, divisor |-> 0]

-----------------------------------------------------------------------------
(* npcm8xx_clk_pll_recalc_rate *)

readl_relaxed(reg) == regs[reg]

\* do_div(n, base): n / base.  With base = 0 the C division is undefined:
\* the build either traps or (arm64 udiv) yields 0; divzero says which.
do_div(n, base) ==
    IF base = 0
    THEN (IF divzero = "trap" THEN Fault ELSE Rate(0))
    ELSE Rate(n \div base)

PllBody(pllcon, parent_rate) ==
    LET val == readl_relaxed(pllcon)
        indv == FIELD_GET(PLLCON_INDV, val)
        fbdv == FIELD_GET(PLLCON_FBDV, val)
        otdv1 == FIELD_GET(PLLCON_OTDV1, val)
        otdv2 == FIELD_GET(PLLCON_OTDV2, val)
    IN  [res |-> do_div(parent_rate * fbdv, indv * otdv1 * otdv2),
         reads |-> {pllcon}, divided |-> TRUE,
         divisor |-> indv * otdv1 * otdv2]

\* mutant: the parent_rate == 0 test is missing
pll_recalc_rate_nocheck(pllcon, parent_rate) == PllBody(pllcon, parent_rate)

\* mutant: ret is static and never cleared, so a non-zero result of the
\* previous query carries into the next one
pll_recalc_rate_static(pllcon, parent_rate) ==
    LET r == PllBody(pllcon, parent_rate)
    IN  IF parent_rate = 0 \/ r.res.kind # "rate" \/ last.res.value = 0 THEN r
        ELSE [r EXCEPT !.res = Rate(r.res.value + 1)]

npcm8xx_clk_pll_recalc_rate(pllcon, parent_rate) ==
    IF parent_rate = 0
    THEN [res |-> Rate(0), reads |-> {}, divided |-> FALSE, divisor |-> 0]
    ELSE PllBody(pllcon, parent_rate)

-----------------------------------------------------------------------------
(* Rate resolution over the registered topology (clock framework) *)

\* a registered clock: its kind, its row in the table of that kind, whether
\* devres owns it, and whether its operations can only read the hardware
Node(kind, idx, devm, rdonly) ==
    [kind |-> kind, idx |-> idx, devm |-> devm, rdonly |-> rdonly]

\* the init data the clock was registered with
NodeData(c) ==
    IF c.kind = "pll" THEN npcm8xx_plls[c.idx]
    ELSE IF c.kind = "fixed_factor" THEN fixed_factors[c.idx]
    ELSE IF c.kind = "divider" THEN npcm8xx_divs[c.idx]
    ELSE IF c.kind = "mux" THEN npcm8xx_muxes[c.idx]
    ELSE [fixed_rate |-> NPCM8XX_REF_CLK]

\* the parent names the clock was registered with
ParentNames(c) ==
    IF c.kind = "fixed_rate" THEN <<>>
    ELSE IF c.kind = "mux" THEN NodeData(c).parent_names
    ELSE <<NodeData(c).parent_name>>

\* width of a mux field from its mask
MuxRaw(m) == FIELD_GET(GENMASK(m.shift + m.mask.hi, m.shift + m.mask.lo),
                       readl_relaxed(NPCM8XX_CLKSEL))

DivRaw(d) == FIELD_GET(GENMASK(d.shift + d.width - 1, d.shift),
                       readl_relaxed(d.reg))

\* position (1-based) of the first table entry equal to val, 0 if there is none
RECURSIVE TableIndexFrom(_, _, _)
TableIndexFrom(table, val, k) ==
    IF k > Len(table) THEN 0
    ELSE IF table[k] = val THEN k
    ELSE TableIndexFrom(table, val, k + 1)

clk_mux_val_to_index(table, val) == TableIndexFrom(table, val, 1)

DivDivisor(d) ==
    IF "CLK_DIVIDER_POWER_OF_TWO" \in d.clk_divider_flags
    THEN Pow2(DivRaw(d))
    ELSE DivRaw(d) + 1

\* the current parent of a registered node, "" for a source,
\* "?" when the mux selector is not in the table
CurrentParent(n) ==
    LET c == clks[n]
    IN  IF c.kind = "fixed_rate" THEN ""
        ELSE IF c.kind = "mux"
        THEN LET idx == clk_mux_val_to_index(NodeData(c).table, MuxRaw(NodeData(c)))
             IN  IF idx = 0 THEN "?" ELSE ParentNames(c)[idx]
        ELSE ParentNames(c)[1]

RECURSIVE clk_get_rate(_, _)
clk_get_rate(n, fuel) ==
    IF n = "?" THEN Fail("UnknownMuxSelection")
    ELSE IF n \notin DOMAIN clks \/ fuel = 0 THEN Fail("InvalidConfiguration")
    ELSE
      LET c == clks[n]
          data == NodeData(c)
          p == clk_get_rate(CurrentParent(n), fuel - 1)
      IN  IF c.kind = "fixed_rate" THEN Rate(data.fixed_rate)
          ELSE IF c.kind = "mux" THEN p
          ELSE IF p.kind # "rate" THEN p
          ELSE IF c.kind = "pll"
               THEN npcm8xx_clk_pll_recalc_rate(data.reg, p.value).res
          ELSE IF c.kind = "fixed_factor"
               THEN (IF p.value = 0 THEN Fail("ZeroParentRate")
                     ELSE Rate((p.value * data.mult) \div data.div))
          ELSE Rate(p.value \div DivDivisor(data))

resolve(n) == clk_get_rate(n, Cardinality(DOMAIN clks))

-----------------------------------------------------------------------------
(* npcm8xx_clk_probe *)

Ok == "0"

Errnos == {"ENOMEM", "EINVAL"}

NoClks == [n \in {} |-> 0]

\* clk_hw_register: the framework now knows the clock under its name
Register(c, name, node) ==
    [n \in DOMAIN c \cup {name} |-> IF n = name THEN node ELSE c[n]]

\* clk_hw_unregister
Unregister(c, name) == [n \in DOMAIN c \ {name} |-> c[n]]

\* devres release after a failed probe: every devm-registered clock goes
DevresRelease(c) == [n \in {m \in DOMAIN c : ~c[m].devm} |-> c[n]]

SetIdx(h, idx, name) == IF idx = NoIdx THEN h ELSE [h EXCEPT ![idx] = name]

FixedPc == <<"fixed1", "fixed2", "fixed3", "fixed4", "fixed5">>

\* probe returns err from where it stands; a failed probe releases devres
Return(err) ==
    /\ pc' = "returned"
    /\ ret' = err
    /\ clks' = IF err = Ok THEN clks ELSE DevresRelease(clks)

\* devm_kzalloc of npcm8xx_clk_data
ProbeAlloc ==
    /\ pc = "start"
    /\ \/ /\ pc' = "resource"
          /\ UNCHANGED <<ret, clks>>
       \/ Return("ENOMEM")
    /\ UNCHANGED <<regs, divzero, i, hw, hws, provider, last, prev, writes>>

\* of_address_to_resource
ProbeGetResource ==
    /\ pc = "resource"
    /\ \/ /\ pc' = "ioremap"
          /\ UNCHANGED <<ret, clks>>
       \/ \E err \in Errnos : Return(err)
    /\ UNCHANGED <<regs, divzero, i, hw, hws, provider, last, prev, writes>>

\* ioremap, then every hws[] slot is set to ERR_PTR(-EPROBE_DEFER)
ProbeIoremap ==
    /\ pc = "ioremap"
    /\ \/ /\ pc' = "refclk"
          /\ hws' = [id \in OnecellIds |-> "EPROBE_DEFER"]
          /\ UNCHANGED <<ret, clks>>
       \/ /\ Return("ENOMEM")
          /\ UNCHANGED hws
    /\ UNCHANGED <<regs, divzero, i, hw, provider, last, prev, writes>>

\* clk_hw_register_fixed_rate(dev, "refclk", NULL, 0, NPCM8XX_REF_CLK)
ProbeRegisterRefclk ==
    /\ pc = "refclk"
    /\ \/ /\ clks' = Register(clks, "refclk",
                        Node("fixed_rate", 1, FALSE, TRUE))
          /\ hws' = SetIdx(hws, "NPCM8XX_CLK_REFCLK", "refclk")
          /\ hw' = "ok"
          /\ pc' = "plls"
          /\ i' = 0
          /\ UNCHANGED ret
       \/ \E err \in Errnos :
            /\ hw' = err
            /\ Return(err)
            /\ UNCHANGED <<hws, i>>
    /\ UNCHANGED <<regs, divzero, provider, last, prev, writes>>

\* one iteration of the "Register plls" loop
ProbeRegisterPll ==
    /\ pc = "plls"
    /\ i < ARRAY_SIZE(npcm8xx_plls)
    /\ LET pll_data == npcm8xx_plls[i + 1]
       IN  \/ /\ clks' = Register(clks, pll_data.name,
                            Node("pll", i + 1, TRUE, TRUE))
              /\ hws' = SetIdx(hws, pll_data.onecell_idx, pll_data.name)
              /\ hw' = "ok"
              /\ i' = i + 1
              /\ pc' = IF i + 1 < ARRAY_SIZE(npcm8xx_plls) THEN "plls"
                       ELSE FixedPc[1]
           \/ \E err \in Errnos :
                /\ hw' = err
                /\ pc' = "unregister_refclk"
                /\ UNCHANGED <<clks, hws, i>>
    /\ UNCHANGED <<regs, divzero, ret, provider, last, prev, writes>>

\* the k-th devm_clk_hw_register_fixed_factor call
ProbeRegisterFixedFactor(k) ==
    /\ pc = FixedPc[k]
    /\ LET f == fixed_factors[k]
       IN  \/ /\ clks' = Register(clks, f.name,
                            Node("fixed_factor", k, TRUE, TRUE))
              /\ hw' = "ok"
              /\ pc' = IF k < Len(fixed_factors) THEN FixedPc[k + 1] ELSE "divs"
              /\ i' = IF k < Len(fixed_factors) THEN i ELSE 0
           \/ \E err \in Errnos :
                /\ hw' = err
                /\ pc' = "unregister_refclk"
                /\ UNCHANGED <<clks, i>>
    /\ UNCHANGED <<regs, divzero, ret, hws, provider, last, prev, writes>>

\* one iteration of the loop over npcm8xx_divs
ProbeRegisterDivider ==
    /\ pc = "divs"
    /\ i < ARRAY_SIZE(npcm8xx_divs)
    /\ LET div_data == npcm8xx_divs[i + 1]
       IN  \/ /\ clks' = Register(clks, div_data.name,
                            Node("divider", i + 1, TRUE,
                                 "CLK_DIVIDER_READ_ONLY" \in div_data.clk_divider_flags))
              /\ hws' = SetIdx(hws, div_data.onecell_idx, div_data.name)
              /\ hw' = "ok"
              /\ i' = IF i + 1 < ARRAY_SIZE(npcm8xx_divs) THEN i + 1 ELSE 0
              /\ pc' = IF i + 1 < ARRAY_SIZE(npcm8xx_divs) THEN "divs" ELSE "muxes"
           \/ \E err \in Errnos :
                /\ hw' = err
                /\ pc' = "unregister_refclk"
                /\ UNCHANGED <<clks, hws, i>>
    /\ UNCHANGED <<regs, divzero, ret, provider, last, prev, writes>>

\* one iteration of the loop over npcm8xx_muxes; clk_mux_flags is 0
ProbeRegisterMux ==
    /\ pc = "muxes"
    /\ i < ARRAY_SIZE(npcm8xx_muxes)
    /\ LET mux_data == npcm8xx_muxes[i + 1]
       IN  \/ /\ clks' = Register(clks, mux_data.name,
                            Node("mux", i + 1, FALSE, FALSE))
              /\ hws' = SetIdx(hws, mux_data.onecell_idx, mux_data.name)
              /\ hw' = "ok"
              /\ i' = i + 1
              /\ pc' = IF i + 1 < ARRAY_SIZE(npcm8xx_muxes) THEN "muxes"
                       ELSE "provider"
           \/ \E err \in Errnos :
                /\ hw' = err
                /\ pc' = "err_mux_clk"
                /\ UNCHANGED <<clks, hws, i>>
    /\ UNCHANGED <<regs, divzero, ret, provider, last, prev, writes>>

\* devm_of_clk_add_hw_provider; on success probe returns 0
ProbeAddProvider ==
    /\ pc = "provider"
    /\ \/ /\ provider' = TRUE
          /\ Return(Ok)
          /\ UNCHANGED hw
       \/ \E err \in Errnos :
            /\ hw' = err
            /\ pc' = "err_mux_clk"
            /\ UNCHANGED <<provider, ret, clks>>
    /\ UNCHANGED <<regs, divzero, i, hws, last, prev, writes>>

\* err_mux_clk: one evaluation of while (i--) and, if entered, its body
ErrMuxClk ==
    /\ pc = "err_mux_clk"
    /\ i' = i - 1
    /\ IF i = 0
       THEN /\ pc' = "unregister_refclk"
            /\ UNCHANGED clks
       ELSE /\ pc' = "err_mux_clk"
            /\ clks' = IF npcm8xx_muxes[i' + 1].onecell_idx # NoIdx
                       THEN Unregister(clks, hws[npcm8xx_muxes[i' + 1].onecell_idx])
                       ELSE clks
    /\ UNCHANGED <<regs, divzero, hw, ret, hws, provider, last, prev, writes>>

\* unregister_refclk: clk_hw_unregister(hws[NPCM8XX_CLK_REFCLK]); return PTR_ERR(hw)
UnregisterRefclk ==
    /\ pc = "unregister_refclk"
    /\ pc' = "returned"
    /\ ret' = hw
    /\ clks' = DevresRelease(Unregister(clks, hws["NPCM8XX_CLK_REFCLK"]))
    /\ UNCHANGED <<regs, divzero, i, hw, hws, provider, last, prev, writes>>

Probe ==
    \/ ProbeAlloc
    \/ ProbeGetResource
    \/ ProbeIoremap
    \/ ProbeRegisterRefclk
    \/ ProbeRegisterPll
    \/ \E k \in 1..Len(fixed_factors) : ProbeRegisterFixedFactor(k)
    \/ ProbeRegisterDivider
    \/ ProbeRegisterMux
    \/ ProbeAddProvider
    \/ ErrMuxClk
    \/ UnregisterRefclk

Probed == pc = "returned" /\ ret = Ok

-----------------------------------------------------------------------------
(* Rate queries, once the provider is registered *)

ParentRates == {0, 1000, NPCM8XX_REF_CLK}

Query(op, node, parent_rate, r) ==
    [op |-> op, node |-> node, parent_rate |-> parent_rate, res |-> r.res,
     reads |-> r.reads, divided |-> r.divided, divisor |-> r.divisor]

SameQuery(a, b) ==
    a.op = b.op /\ a.node = b.node /\ a.parent_rate = b.parent_rate

Record(q) ==
    /\ last' = q
    /\ prev' = IF SameQuery(last, q) THEN last ELSE NoCall

\* the framework calls .recalc_rate of the k-th PLL with a parent rate
PllRecalcRate(k, parent_rate) ==
    /\ Probed
    /\ npcm8xx_plls[k].name \in DOMAIN clks
    /\ LET fbdv == FIELD_GET(PLLCON_FBDV, regs[npcm8xx_plls[k].reg])
       IN  fbdv = 0 \/ parent_rate <= MaxProduct \div fbdv
    /\ Record(Query("pll_recalc", npcm8xx_plls[k].name, parent_rate,
                    npcm8xx_clk_pll_recalc_rate(npcm8xx_plls[k].reg, parent_rate)))
    /\ UNCHANGED <<regs, divzero, pc, i, hw, ret, clks, hws, provider, writes>>

\* a consumer asks for the rate of registered clock n
GetRate(n) ==
    /\ Probed
    /\ n \in DOMAIN clks
    /\ Record(Query("resolve", n, 0,
                    [res |-> resolve(n), reads |-> {}, divided |-> FALSE,
                     divisor |-> 0]))
    /\ UNCHANGED <<regs, divzero, pc, i, hw, ret, clks, hws, provider, writes>>

-----------------------------------------------------------------------------
(* Register images *)

PllWord(indv, fbdv, otdv1, otdv2, other) ==
    FieldPut(FieldPut(FieldPut(FieldPut([b \in Bits |-> other],
        PLLCON_INDV, indv), PLLCON_FBDV, fbdv), PLLCON_OTDV1, otdv1),
        PLLCON_OTDV2, otdv2)

RECURSIVE SelWordFrom(_, _)
SelWordFrom(sel, k) ==
    IF k = 0 THEN ZeroWord
    ELSE LET m == npcm8xx_muxes[k]
         IN  FieldPut(SelWordFrom(sel, k - 1),
                      GENMASK(m.shift + m.mask.hi, m.shift + m.mask.lo), sel)

\* CLKSEL with the low bits of sel in every mux field
SelWord(sel) == SelWordFrom(sel, Len(npcm8xx_muxes))

Image(sel, dw, pw) ==
    [r \in RegOffsets |->
        IF r = NPCM8XX_CLKSEL THEN SelWord(sel)
        ELSE IF r \in PllRegs THEN pw
        ELSE dw]

\* PLL0 word of the 800 MHz configuration: INDV=1, FBDV=64, OTDV1=2, OTDV2=1
Pll800 == PllWord(1, 64, 2, 1, 0)

\* the image the model starts from: every mux on refclk, PLLs at 800 MHz
BootImage == Image(2, AltWord, Pll800)

OpsImages == {BootImage, Image(0, ZeroWord, Pll800)}

SetRegs(rs, w) == [r \in RegOffsets |-> IF r \in rs THEN w ELSE regs[r]]

Hw(newregs) ==
    /\ Probed
    /\ regs # newregs
    /\ regs' = newregs
    /\ last' = NoCall
    /\ prev' = NoCall
    /\ UNCHANGED <<divzero, pc, i, hw, ret, clks, hws, provider, writes>>

\* firmware or a reset rewrites CLKSEL between two queries
HwSetClksel(sel) == Hw(SetRegs({NPCM8XX_CLKSEL}, SelWord(sel)))

\* firmware or a reset rewrites the divider registers
HwSetDividers(dw) == Hw(SetRegs(DivRegs, dw))

\* firmware or a reset rewrites the PLL control words
HwSetPlls(pw) == Hw(SetRegs(PllRegs, pw))

TreePllWords == {Pll800, ZeroWord, PllWord(2, 80, 1, 1, 1)}

\* firmware or a reset changes one field of the PLL control words
HwSetPllField(mask, v) ==
    Hw([r \in RegOffsets |->
          IF r \in PllRegs THEN FieldPut(regs[r], mask, v) ELSE regs[r]])

PllFieldChoices ==
    ({PLLCON_INDV} \X {0, 1, 63}) \cup ({PLLCON_FBDV} \X {1, 64, 4095})
      \cup ({PLLCON_OTDV1} \X {0, 1, 2, 7}) \cup ({PLLCON_OTDV2} \X {0, 1, 7})

\* the power-down bit and the two lock-status bits change together
HwSetPllStatus(b) ==
    Hw([r \in RegOffsets |->
          IF r \in PllRegs
          THEN FieldPut(FieldPut(FieldPut(regs[r], PLLCON_PWDEN, b),
                                 PLLCON_LOKS, b), PLLCON_LOKI, b)
          ELSE regs[r]])

-----------------------------------------------------------------------------
(* Operations the registration leaves open (clock framework) *)

\* clk_divider_set_rate: writes the divider field; not in clk_divider_ro_ops
SetRate(n, v) ==
    /\ Probed
    /\ writes < MaxWrites
    /\ n \in DOMAIN clks
    /\ clks[n].kind = "divider"
    /\ ~clks[n].rdonly
    /\ LET d == NodeData(clks[n])
       IN  regs' = [regs EXCEPT ![d.reg] =
                      FieldPut(@, GENMASK(d.shift + d.width - 1, d.shift), v)]
    /\ writes' = writes + 1
    /\ last' = NoCall
    /\ prev' = NoCall
    /\ UNCHANGED <<divzero, pc, i, hw, ret, clks, hws, provider>>

\* clk_mux_set_parent: reg &= ~(mask << shift); reg |= table[index] << shift
SetParent(n, index) ==
    /\ Probed
    /\ writes < MaxWrites
    /\ n \in DOMAIN clks
    /\ clks[n].kind = "mux"
    /\ ~clks[n].rdonly
    /\ index \in 1..NodeData(clks[n]).num_parents
    /\ LET m == NodeData(clks[n])
           val == m.table[index]
           cleared == FieldPut(regs[NPCM8XX_CLKSEL],
                               GENMASK(m.shift + m.mask.hi, m.shift + m.mask.lo), 0)
       IN  regs' = [regs EXCEPT ![NPCM8XX_CLKSEL] =
                      [b \in Bits |->
                         IF b >= m.shift /\ BitOf(val, b - m.shift) = 1 THEN 1
                         ELSE cleared[b]]]
    /\ writes' = writes + 1
    /\ last' = NoCall
    /\ prev' = NoCall
    /\ UNCHANGED <<divzero, pc, i, hw, ret, clks, hws, provider>>

-----------------------------------------------------------------------------
(* Specifications *)

InitWith(images) ==
    /\ regs \in images
    /\ divzero \in {"trap", "zero"}
    /\ pc = "start"
    /\ i = 0
    /\ hw = "ok"
    /\ ret = "none"
    /\ clks = NoClks
    /\ hws = [id \in OnecellIds |-> "NULL"]
    /\ provider = FALSE
    /\ last = NoCall
    /\ prev = NoCall
    /\ writes = 0

AllNames ==
    {"refclk"} \cup {npcm8xx_plls[k].name : k \in 1..Len(npcm8xx_plls)}
      \cup {fixed_factors[k].name : k \in 1..Len(fixed_factors)}
      \cup {npcm8xx_divs[k].name : k \in 1..Len(npcm8xx_divs)}
      \cup {npcm8xx_muxes[k].name : k \in 1..Len(npcm8xx_muxes)}

\* probe, then rate queries against a register image that firmware may reload
Init == InitWith({BootImage})

Next ==
    \/ Probe
    \/ \E n \in AllNames : GetRate(n)
    \/ \E sel \in 0..7 : HwSetClksel(sel)
    \/ \E dw \in {ZeroWord, AltWord} : HwSetDividers(dw)
    \/ \E pw \in TreePllWords : HwSetPlls(pw)

Spec == Init /\ [][Next]_vars

\* probe, then the PLL callback over many control words and parent rates
InitPll == InitWith({BootImage})

NextPll ==
    \/ Probe
    \/ \E c \in PllFieldChoices : HwSetPllField(c[1], c[2])
    \/ \E b \in {0, 1} : HwSetPllStatus(b)
    \/ \E k \in 1..Len(npcm8xx_plls) : \E parent_rate \in ParentRates :
         PllRecalcRate(k, parent_rate)

SpecPll == InitPll /\ [][NextPll]_vars

\* probe, then the rate and parent changes the registered operations allow
InitOps == InitWith(OpsImages)

NextOps ==
    \/ Probe
    \/ \E n \in AllNames : \E v \in {0, 1, 31} : SetRate(n, v)
    \/ \E n \in AllNames : \E index \in 1..5 : SetParent(n, index)

SpecOps == InitOps /\ [][NextOps]_vars

-----------------------------------------------------------------------------
(* Properties *)

IsPllQuery == last.op = "pll_recalc"

\* the control word the last PLL query was answered from
LastPllWord == regs[NodeData(clks[last.node]).reg]

LastMux == NodeData(clks[last.node])

IsMuxQuery ==
    last.op = "resolve" /\ last.node \in DOMAIN clks /\ clks[last.node].kind = "mux"

\* C1: for every PLL, parent rate and control word the PLL rate is
\* floor(parent_rate * FBDV / (INDV * OTDV1 * OTDV2)), the fields taken from
\* bits 5:0, 10:8, 15:13 and 27:16; a zero parent rate gives 0.
C1_PllRateFormula ==
    IsPllQuery =>
      LET p == last.parent_rate
          f == FIELD_GET(GENMASK(27, 16), LastPllWord)
          d == FIELD_GET(GENMASK(5, 0), LastPllWord)
                 * FIELD_GET(GENMASK(10, 8), LastPllWord)
                 * FIELD_GET(GENMASK(15, 13), LastPllWord)
      IN  /\ last.res.kind = "rate"
          /\ IF p = 0 THEN last.res.value = 0
             ELSE /\ d * last.res.value <= p * f
                  /\ p * f < d * (last.res.value + 1)

\* C2: with a parent rate of 0 the PLL rate is 0 for every control word,
\* without a division and without a read of the control register.
C2_ZeroParentRate ==
    (IsPllQuery /\ last.parent_rate = 0) =>
      /\ last.res = Rate(0)
      /\ ~last.divided
      /\ last.reads = {}

\* a PLL was queried with parent rate 0 while its INDV field was 0
C2_Witness ==
    /\ IsPllQuery
    /\ last.parent_rate = 0
    /\ FIELD_GET(PLLCON_INDV, LastPllWord) = 0
    /\ last.res = Rate(0)

\* C10: with a non-zero parent rate the divisor INDV * OTDV1 * OTDV2 that the
\* PLL rate computation divides by is never zero.
C10_NoDivideByZero ==
    (IsPllQuery /\ last.parent_rate # 0) => (last.divided /\ last.divisor # 0)

\* C3: resolving a mux whose raw selector is in its table gives what resolving
\* the parent at the matching position gives; a raw selector that is not in
\* the table (1 or 3 for gfx_pixel) fails with UnknownMuxSelection.
C3_MuxSelection ==
    IsMuxQuery =>
      LET m == LastMux
          raw == MuxRaw(m)
          hits == {k \in 1..Len(m.table) : m.table[k] = raw}
      IN  /\ \A k \in hits : last.res = resolve(m.parent_names[k])
          /\ hits = {} => last.res = Fail("UnknownMuxSelection")
          /\ (m.name = "gfx_pixel" /\ raw \in {1, 3})
               => last.res = Fail("UnknownMuxSelection")

\* gfx_pixel was resolved while its selector field held 3
C3_Witness ==
    /\ IsMuxQuery
    /\ last.node = "gfx_pixel"
    /\ MuxRaw(LastMux) = 3
    /\ last.res = Fail("UnknownMuxSelection")

\* C4: no operation that the registration of a node makes available changes
\* a clock-controller register.
C4_NeverWritesRegisters == [][regs' = regs]_vars

\* C5: every parent name of every registered node names a node this driver
\* registers, and only refclk has no parent.
C5_ParentsRegistered ==
    Probed =>
      \A n \in DOMAIN clks :
        /\ Range(ParentNames(clks[n])) \subseteq DOMAIN clks
        /\ (ParentNames(clks[n]) = <<>>) <=> (n = "refclk")

\* C6: every registered divider of the divider table carries the read-only flag.
C6_DividersReadOnly ==
    \A n \in DOMAIN clks :
      clks[n].kind = "divider"
        => "CLK_DIVIDER_READ_ONLY" \in NodeData(clks[n]).clk_divider_flags

\* C7: when probe returns an error, no clock registered during that probe is
\* still registered and no provider is exposed; a failed step makes probe
\* return an error.
C7_ProbeAtomic ==
    /\ (pc = "returned" /\ ret # Ok) => (DOMAIN clks = {} /\ ~provider)
    /\ (pc = "returned" /\ hw # "ok") => ret # Ok

RECURSIVE ParentWalk(_, _)
ParentWalk(n, seen) ==
    IF n \in seen THEN "cycle"
    ELSE IF n = "?" \/ n \notin DOMAIN clks THEN n
    ELSE IF CurrentParent(n) = "" THEN n
    ELSE ParentWalk(CurrentParent(n), seen \cup {n})

\* C9: from every node, following the current parents reaches refclk without
\* visiting a node twice, unless a mux selector on the way is outside its table.
C9_ReachesRefclk ==
    Probed => \A n \in DOMAIN clks : ParentWalk(n, {}) \in {"refclk", "?"}

\* largest raw value a selector field of the given mask can hold
FieldMax(mask) == Pow2(mask.hi - mask.lo + 1) - 1

\* C11: for every registered mux, every value of its lookup table fits in the
\* selector field's mask, so every candidate parent is selected by at least one
\* raw value the field can hold.
C11_TableFitsMask ==
    \A n \in DOMAIN clks :
      clks[n].kind = "mux" =>
        LET m == NodeData(clks[n])
        IN  \A k \in 1..Len(m.table) :
              /\ m.table[k] <= FieldMax(m.mask)
              /\ \E v \in 0..FieldMax(m.mask) :
                   clk_mux_val_to_index(m.table, v) = k

====
